---- MODULE Spec2Model ----
(***************************************************************************)
(* A model of the note service: the warp handlers (src/src/handler.rs),    *)
(* the data-access layer DB (src/src/db.rs), the rejection handler         *)
(* (src/src/error.rs) and the MongoDB collection they share.               *)
(*                                                                         *)
(* Requests are served concurrently.  A handler runs atomically between    *)
(* two store calls (its only suspension points); a store call takes effect *)
(* atomically at the store.  get, update, delete and list make one store   *)
(* call; create makes three (create_index, insert_one, find_one).          *)
(***************************************************************************)
EXTENDS Integers, Sequences, FiniteSets, TLC

VARIABLES
    notes,       \* the collection: its documents in the store's natural order
    titleIndex,  \* whether the unique index on "title" exists
    nextOid,     \* the ObjectId counter of the driver
    now,         \* the clock Utc::now() reads; one tick per request received
    faults,      \* store calls that failed in transport so far
    req,         \* per connection: the request being served, if any
    last         \* the request that finished last, with its response

vars == <<notes, titleIndex, nextOid, now, faults, req, last>>

----------------------------------------------------------------------------
(* Bounds of the model. *)

\* connections served concurrently
NumSlots == 2
\* requests received in a run
MaxRequests == 3
\* store calls that fail in transport in a run
MaxFaults == 1
\* notes in the collection of the pagination specification SpecList
MaxNotes == 16

Slots == 1..NumSlots

----------------------------------------------------------------------------
(* Option<T>: None is the empty sequence, Some(v) the sequence <<v>>. *)

None == <<>>
Some(v) == <<v>>
is_none(o) == o = <<>>
is_some(o) == o # <<>>
unwrap(o) == o[1]
unwrap_or(o, d) == IF o = <<>> THEN d ELSE o[1]

\* A string is the sequence of its pieces (characters, or words of a message).
\* e.to_string().contains(needle): needle occurs as a contiguous run of hay
contains(hay, needle) ==
    \E i \in 0..(Len(hay) - Len(needle)) :
        \A j \in 1..Len(needle) : hay[i + j] = needle[j]

----------------------------------------------------------------------------
(* HTTP status codes (warp::http::StatusCode). *)

OK == 200
CREATED == 201
NO_CONTENT == 204
BAD_REQUEST == 400
NOT_FOUND == 404
METHOD_NOT_ALLOWED == 405
CONFLICT == 409
INTERNAL_SERVER_ERROR == 500

----------------------------------------------------------------------------
(* bson::oid::ObjectId: twelve bytes, written as 24 hexadecimal digits. *)

OidBytes == 12

HexDigits == <<"0", "1", "2", "3", "4", "5", "6", "7", "8", "9",
               "a", "b", "c", "d", "e", "f">>
UpperHex == <<"0", "1", "2", "3", "4", "5", "6", "7", "8", "9",
              "A", "B", "C", "D", "E", "F">>

\* the value of every hexadecimal digit, of either case
HexValue ==
    [c \in {HexDigits[v] : v \in 1..16} \cup {UpperHex[v] : v \in 1..16} |->
        (CHOOSE v \in 1..16 : HexDigits[v] = c \/ UpperHex[v] = c) - 1]

is_hex(c) == c \in DOMAIN HexValue
hex_val(c) == HexValue[c]

\* ObjectId::from_str(id): Ok(oid), or Err when id is not 24 hex digits
from_str(id) ==
    IF Len(id) = 2 * OidBytes /\ \A i \in 1..Len(id) : is_hex(id[i])
    THEN [ok |-> TRUE,
          oid |-> [i \in 1..OidBytes |->
                      16 * hex_val(id[2 * i - 1]) + hex_val(id[2 * i])]]
    ELSE [ok |-> FALSE, oid |-> <<>>]

\* ObjectId::to_hex(): 24 lower-case digits
to_hex(oid) ==
    [i \in 1..(2 * Len(oid)) |->
        IF i % 2 = 1 THEN HexDigits[(oid[(i + 1) \div 2] \div 16) + 1]
        ELSE HexDigits[(oid[i \div 2] % 16) + 1]]

\* the n-th ObjectId the driver generates for a document inserted without _id
new_oid(n) == [i \in 1..OidBytes |-> IF i = OidBytes THEN n % 256 ELSE 0]

----------------------------------------------------------------------------
(* i64 and u64, kept at their width: a value is its eight little-endian    *)
(* bytes (two's complement).                                               *)

IntBytes == 8

RECURSIVE le_bytes(_, _)
le_bytes(n, k) == IF k = 0 THEN <<>> ELSE <<n % 256>> \o le_bytes(n \div 256, k - 1)

\* a small non-negative number as an i64
i64(n) == le_bytes(n, IntBytes)

\* 2^k + n as an i64, for 8 <= k < 63 and 0 <= n < 256
i64_pow2(k, n) ==
    [i \in 1..IntBytes |->
        IF i = (k \div 8) + 1 THEN 2 ^ (k % 8) ELSE IF i = 1 THEN n ELSE 0]

is_negative(a) == a[IntBytes] >= 128

\* a - 1 for a >= 1 (no overflow is possible)
RECURSIVE dec_from(_, _)
dec_from(a, i) ==
    IF i > Len(a) THEN a
    ELSE IF a[i] > 0 THEN [a EXCEPT ![i] = a[i] - 1]
    ELSE dec_from([a EXCEPT ![i] = 255], i + 1)
sub_one(a) == dec_from(a, 1)

\* column k (from 0) of the schoolbook product of a and b
RECURSIVE column(_, _, _, _)
column(a, b, k, i) ==
    IF i > IntBytes THEN 0
    ELSE (IF k - (i - 1) >= 0 /\ k - (i - 1) < IntBytes
          THEN a[i] * b[k - (i - 1) + 1] ELSE 0) + column(a, b, k, i + 1)

\* the sixteen bytes of the full product of two non-negative values
RECURSIVE mul_digits(_, _, _, _)
mul_digits(a, b, k, carry) ==
    IF k = 2 * IntBytes THEN <<>>
    ELSE LET t == column(a, b, k, 1) + carry
         IN  <<t % 256>> \o mul_digits(a, b, k + 1, t \div 256)
mul_wide(a, b) == mul_digits(a, b, 0, 0)

\* the low 64 bits of a product
wrapped(product) == SubSeq(product, 1, IntBytes)

\* whether a product of non-negative values leaves the range of i64
overflows(product) ==
    \/ \E k \in (IntBytes + 1)..(2 * IntBytes) : product[k] # 0
    \/ product[IntBytes] >= 128

\* min(a, cap) as a number, for a non-negative value a and a small cap
clamp(a, cap) ==
    IF \E k \in 4..Len(a) : a[k] # 0 THEN cap
    ELSE LET v == a[1] + 256 * a[2] + 65536 * a[3]
         IN  IF v > cap THEN cap ELSE v

----------------------------------------------------------------------------
(* Request shapes. *)

Fields == {"title", "content", "category", "published"}

\* a request body with every field absent
NoBody == [title |-> None, content |-> None, category |-> None, published |-> None]

\* the bodies POST /api/notes is called with (title and content are required)
CreateBodies ==
    { [title |-> Some("t1"), content |-> Some("c1"), category |-> None, published |-> None],
      [title |-> Some("t2"), content |-> Some("c2"), category |-> Some("a"),
       published |-> Some(TRUE)] }

\* the bodies PATCH /api/notes/{id} is called with (every field optional)
UpdateBodies ==
    { NoBody,
      [NoBody EXCEPT !.category = Some("b")],
      [NoBody EXCEPT !.title = Some("t2")],
      [NoBody EXCEPT !.title = Some("t1"), !.content = Some("c3")] }

\* FilterOptions after the handler's casts to i64
NoOpts == [limit |-> None, page |-> None]

\* bson::to_bson(body).as_document(): the fields of the body that are present
to_bson(body) ==
    [k \in {f \in DOMAIN body : is_some(body[f])} |-> unwrap(body[k])]

\* Document::extend: the entries of e are inserted into d, replacing equal keys
extend(d, e) ==
    [k \in DOMAIN d \cup DOMAIN e |-> IF k \in DOMAIN e THEN e[k] ELSE d[k]]

\* the path parameters the id routes are called with
IdStrings ==
    { to_hex(new_oid(1)), to_hex(new_oid(2)),
      <<"n", "o", "t", "-", "a", "n", "-", "i", "d">>,
      [i \in 1..(2 * OidBytes) |-> IF i = 1 THEN "g" ELSE "0"] }

----------------------------------------------------------------------------
(* error.rs: the error kinds and their mapping to responses. *)

ErrorVariants ==
    {"MongoError", "MongoQueryError", "MongoDuplicateError",
     "MongoSerializeBsonError", "MongoDataError", "InvalidIDError"}

Error(variant, payload) == [variant |-> variant, payload |-> payload]
NoError == Error("none", <<>>)

\* the Display text of the driver's error for a violated unique index
DuplicateKeyMessage ==
    <<"Kind: Write(WriteError { code: 11000, message: \"",
      "E11000", "duplicate", "key", "error", "collection",
      ": notes index: title_1 dup key", "\" })">>

\* the Display text of the driver's error for a failed connection
TransportMessage == <<"Kind: Io(", "connection", "refused", ")">>

DuplicateNeedle == <<"E11000", "duplicate", "key", "error", "collection">>

Rejection(kind, error) == [kind |-> kind, error |-> error]

RejectionKinds ==
    {"not_found", "BodyDeserializeError", "Error", "MethodNotAllowed", "other"}

\* reject::custom(e)
custom(e) == Rejection("Error", e)

Reply(code, kind, status, message, results, data) ==
    [code |-> code, kind |-> kind, status |-> status, message |-> message,
     results |-> results, notes |-> data]
NoReply == Reply(0, "none", "", <<>>, 0, <<>>)

GenericResponse(code, status, message) ==
    Reply(code, "generic", status, message, 0, <<>>)

handle_rejection(err) ==
    IF err.kind = "not_found"
    THEN GenericResponse(NOT_FOUND, "failed", <<"Route does not exist on the server">>)
    ELSE IF err.kind = "BodyDeserializeError"
    THEN GenericResponse(BAD_REQUEST, "failed", <<"Invalid Body">>)
    ELSE IF err.kind = "Error"
    THEN CASE err.error.variant = "MongoError" ->
                GenericResponse(INTERNAL_SERVER_ERROR, "fail", <<"MongoDB error">>)
           [] err.error.variant = "MongoDuplicateError" ->
                GenericResponse(CONFLICT, "fail", <<"Duplicate key error">>)
           [] err.error.variant = "MongoQueryError" ->
                GenericResponse(INTERNAL_SERVER_ERROR, "fail", <<"Error during mongodb query">>)
           [] err.error.variant = "MongoSerializeBsonError" ->
                GenericResponse(INTERNAL_SERVER_ERROR, "fail", <<"Error seserializing BSON">>)
           [] err.error.variant = "MongoDataError" ->
                GenericResponse(BAD_REQUEST, "fail", <<"validation error">>)
           [] err.error.variant = "InvalidIDError" ->
                GenericResponse(BAD_REQUEST, "fail", err.error.payload)
    ELSE IF err.kind = "MethodNotAllowed"
    THEN GenericResponse(METHOD_NOT_ALLOWED, "failed", <<"Method Not Allowed">>)
    ELSE GenericResponse(INTERNAL_SERVER_ERROR, "error", <<"Internal Server Error">>)

----------------------------------------------------------------------------
(* The collection: the store operations db.rs calls. *)

\* the positions of the documents matching {"_id": oid}
matching(oid) == {i \in 1..Len(notes) : notes[i]._id = oid}

\* whether a document titled t, other than the one at position skip, is stored
title_taken(t, skip) == \E i \in 1..Len(notes) : i # skip /\ notes[i].title = t

\* the index built without unique(true): nothing is rejected
unique_violation_unenforced(t, at) == FALSE

\* whether the unique index rejects a document titled t written at position at
unique_violation(t, at) == titleIndex /\ title_taken(t, at)

\* find_one(doc! {"_id": oid}): the matching document, if any
find_one(oid) ==
    IF matching(oid) = {} THEN None
    ELSE Some(notes[CHOOSE i \in matching(oid) : TRUE])

\* the collection after delete_one(doc! {"_id": oid})
delete_one(oid) ==
    IF matching(oid) = {} THEN notes
    ELSE LET i == CHOOSE j \in matching(oid) : TRUE
         IN  SubSeq(notes, 1, i - 1) \o SubSeq(notes, i + 1, Len(notes))

\* find(None, skip, limit), limit >= 1: the documents after the first skip,
\* at most limit of them
find(skip, limit) ==
    LET first == clamp(skip, Len(notes))
    IN  SubSeq(notes, first + 1, first + clamp(limit, Len(notes) - first))

\* the update built as create builds its document: fields the body leaves out
\* are written with their defaults
apply_set_defaulting(stored, document) ==
    extend(extend(stored, [category |-> "", published |-> FALSE]), document)

\* doc! {"$set": document} applied to a stored document
apply_set(stored, document) == extend(stored, document)

\* model::NoteModel: the typed view of a stored document
NoteModel(d) ==
    [id |-> d._id, title |-> d.title, content |-> d.content,
     category |-> IF "category" \in DOMAIN d THEN Some(d.category) ELSE None,
     published |-> IF "published" \in DOMAIN d THEN Some(d.published) ELSE None,
     createdAt |-> d.createdAt, updatedAt |-> d.updatedAt]

doc_to_note(note) ==
    [id |-> to_hex(note.id), title |-> note.title, content |-> note.content,
     category |-> unwrap(note.category), published |-> unwrap(note.published),
     createdAt |-> note.createdAt, updatedAt |-> note.updatedAt]

SingleNoteResponse(code, note) == Reply(code, "note", "success", <<>>, 0, <<note>>)

----------------------------------------------------------------------------
(* db.rs: the data-access layer.  Each operation yields its Result, the    *)
(* number of store calls it issued and the collection it leaves.           *)
(* fault names the store call of the operation that fails in transport:    *)
(* "none", "call" (the call itself) or "cursor" (a cursor read).           *)

Result(tag, val, err, calls, store) ==
    [tag |-> tag, val |-> val, err |-> err, calls |-> calls, store |-> store]

Ok(val, calls, store) == Result("Ok", val, NoError, calls, store)
Err(e, calls) == Result("Err", None, e, calls, notes)
\* an unwrap or expect that fails: the task serving the request unwinds
Panic(calls) == Result("Panic", None, NoError, calls, notes)

MongoQueryError(message) == Error("MongoQueryError", message)
InvalidIDError(id) == Error("InvalidIDError", id)

\* the closure without its test of the text: every failure a query error
classify_insert_error_unsniffed(message) == MongoQueryError(message)

\* the closure of create_note's map_err: the text of the store's error decides
classify_insert_error(message) ==
    IF contains(message, DuplicateNeedle)
    THEN Error("MongoDuplicateError", message)
    ELSE MongoQueryError(message)

\* (page - 1) * limit at full precision
skip_product(limit, page) == mul_wide(sub_one(page), limit)

\* skip((page - 1) * limit), in i64, then u64::try_from(..).unwrap().
\* overflow_checks is the build's setting: on, the product panics when it
\* overflows; off, it wraps.
skip_of(product, overflow_checks) ==
    IF overflows(product) /\ overflow_checks
    THEN [ok |-> FALSE, skip |-> i64(0)]
    ELSE IF is_negative(wrapped(product))
    THEN [ok |-> FALSE, skip |-> i64(0)]
    ELSE [ok |-> TRUE, skip |-> wrapped(product)]

\* fetch_notes once (page - 1) * limit is computed
fetch_from(limit, product, fault, overflow_checks) ==
    LET find_options == skip_of(product, overflow_checks)
    IN  IF ~find_options.ok THEN Panic(0)
        ELSE IF fault = "call" THEN Err(MongoQueryError(TransportMessage), 1)
        ELSE IF fault = "cursor" THEN Panic(1)
        ELSE LET cursor == find(find_options.skip, limit)
                 json_result == [i \in 1..Len(cursor) |-> doc_to_note(NoteModel(cursor[i]))]
             IN  Ok(json_result, 1, notes)

fetch_notes(limit, page, fault, overflow_checks) ==
    fetch_from(limit, skip_product(limit, page), fault, overflow_checks)

get_note(id, fault) ==
    LET oid == from_str(id)
    IN  IF ~oid.ok THEN Err(InvalidIDError(id), 0)
        ELSE IF fault # "none" THEN Err(MongoQueryError(TransportMessage), 1)
        ELSE LET note_doc == find_one(oid.oid)
             IN  IF is_none(note_doc) THEN Ok(None, 1, notes)
                 ELSE Ok(Some(doc_to_note(NoteModel(unwrap(note_doc)))), 1, notes)

\* find_one_and_update(query, {"$set": document}, ReturnDocument::After)
find_one_and_update(oid, document) ==
    IF matching(oid) = {} THEN Ok(None, 1, notes)
    ELSE LET i == CHOOSE j \in matching(oid) : TRUE
             after == apply_set(notes[i], document)
         IN  IF unique_violation(after.title, i)
             THEN Err(MongoQueryError(DuplicateKeyMessage), 1)
             ELSE Ok(Some(after), 1, [notes EXCEPT ![i] = after])

edit_note(id, body, fault) ==
    LET oid == from_str(id)
    IN  IF ~oid.ok THEN Err(InvalidIDError(id), 0)
        ELSE IF fault # "none" THEN Err(MongoQueryError(TransportMessage), 1)
        ELSE LET note_doc == find_one_and_update(oid.oid, to_bson(body))
             IN  IF note_doc.tag = "Err" \/ is_none(note_doc.val) THEN note_doc
                 ELSE Ok(Some(doc_to_note(NoteModel(unwrap(note_doc.val)))), 1,
                         note_doc.store)

\* delete_note without its test of deleted_count
delete_note_uncounted(id, fault) ==
    LET oid == from_str(id)
    IN  IF ~oid.ok THEN Err(InvalidIDError(id), 0)
        ELSE IF fault # "none" THEN Err(MongoQueryError(TransportMessage), 1)
        ELSE Ok(Some("unit"), 1, delete_one(oid.oid))

\* delete_note with an empty filter: the first document of the collection goes
delete_note_unfiltered(id, fault) ==
    LET oid == from_str(id)
    IN  IF ~oid.ok THEN Err(InvalidIDError(id), 0)
        ELSE IF fault # "none" THEN Err(MongoQueryError(TransportMessage), 1)
        ELSE IF notes = <<>> THEN Ok(None, 1, notes)
        ELSE Ok(Some("unit"), 1, Tail(notes))

delete_note(id, fault) ==
    LET oid == from_str(id)
    IN  IF ~oid.ok THEN Err(InvalidIDError(id), 0)
        ELSE IF fault # "none" THEN Err(MongoQueryError(TransportMessage), 1)
        ELSE IF matching(oid.oid) = {} THEN Ok(None, 1, notes)
        ELSE Ok(Some("unit"), 1, delete_one(oid.oid))

\* create_note up to its insert_one: the document built from the body and
\* the clock, and what the store answers
doc_with_dates(body, datetime) ==
    extend([createdAt |-> datetime, updatedAt |-> datetime,
            published |-> unwrap_or(body.published, FALSE),
            category |-> unwrap_or(body.category, "")],
           to_bson(body))

insert_one(doc, fault) ==
    IF fault # "none" THEN Err(classify_insert_error(TransportMessage), 1)
    ELSE IF unique_violation(doc.title, 0)
    THEN Err(classify_insert_error(DuplicateKeyMessage), 1)
    ELSE Ok(Some(new_oid(nextOid)), 1,
            Append(notes, extend(doc, [_id |-> new_oid(nextOid)])))

\* create_note from its find_one on: the read-back of the inserted document
read_back(new_id, fault) ==
    IF fault # "none" THEN Err(MongoQueryError(TransportMessage), 1)
    ELSE LET note_doc == find_one(new_id)
         IN  IF is_none(note_doc) THEN Ok(None, 1, notes)
             ELSE Ok(Some(doc_to_note(NoteModel(unwrap(note_doc)))), 1, notes)

----------------------------------------------------------------------------
(* handler.rs: what each handler returns to warp, and main.rs's recover.   *)

WebReply(reply) == [tag |-> "Reply", reply |-> reply, rejection |-> Rejection("none", NoError)]
WebRejection(r) == [tag |-> "Rejection", reply |-> NoReply, rejection |-> r]
WebPanic == [tag |-> "Panic", reply |-> NoReply, rejection |-> Rejection("none", NoError)]

\* routes.recover(error::handle_rejection)
recover(web) == IF web.tag = "Rejection" THEN handle_rejection(web.rejection) ELSE web.reply

\* format!("Note with ID: {} not found", id)
not_found_message(id) == <<"Note with ID: ">> \o id \o <<" not found">>

DefaultLimit == 10
DefaultPage == 1

notes_list_handler(res) ==
    IF res.tag = "Panic" THEN WebPanic
    ELSE IF res.tag = "Err" THEN WebRejection(custom(res.err))
    ELSE WebReply(Reply(OK, "list", "success", <<>>, Len(res.val), res.val))

create_note_handler(res) ==
    IF res.tag = "Panic" THEN WebPanic
    ELSE IF res.tag = "Err" THEN WebRejection(custom(res.err))
    ELSE IF is_none(res.val) THEN WebReply(Reply(CREATED, "null", "", <<>>, 0, <<>>))
    ELSE WebReply(SingleNoteResponse(CREATED, unwrap(res.val)))

\* get_note_handler and edit_note_handler map the Result alike
note_handler(id, res) ==
    IF res.tag = "Panic" THEN WebPanic
    ELSE IF res.tag = "Err" THEN WebRejection(custom(res.err))
    ELSE IF is_none(res.val)
    THEN WebReply(GenericResponse(NOT_FOUND, "fail", not_found_message(id)))
    ELSE WebReply(SingleNoteResponse(OK, unwrap(res.val)))

delete_note_handler(id, res) ==
    IF res.tag = "Panic" THEN WebPanic
    ELSE IF res.tag = "Err" THEN WebRejection(custom(res.err))
    ELSE IF is_none(res.val)
    THEN WebReply(GenericResponse(NOT_FOUND, "fail", not_found_message(id)))
    ELSE WebReply(Reply(NO_CONTENT, "empty", "", <<>>, 0, <<>>))

----------------------------------------------------------------------------
(* The requests. *)

Request(seq, pc, op, id, body, opts, new_id, calls, error, rejection, reply) ==
    [seq |-> seq, pc |-> pc, op |-> op, id |-> id, body |-> body, opts |-> opts,
     new_id |-> new_id, calls |-> calls, error |-> error,
     rejection |-> rejection, reply |-> reply]

Idle == Request(0, "idle", "none", <<>>, NoBody, NoOpts, None, 0, NoError,
                Rejection("none", NoError), NoReply)

\* request number seq, whose handler returned web after the store calls of res
Finished(seq, op, id, body, opts, new_id, calls, res, web) ==
    Request(seq, IF web.tag = "Panic" THEN "panicked" ELSE "done", op, id, body,
            opts, new_id, calls + res.calls, res.err, web.rejection, recover(web))

\* connection s takes the next request: the first idle one does (which one is
\* immaterial), while the run's requests last
Receivable(s) ==
    /\ req[s].pc = "idle"
    /\ \A t \in Slots : t < s => req[t].pc # "idle"
    /\ now < MaxRequests

\* the ways the next store call can go: well, or one of kinds
FaultChoices(kinds) == {"none"} \cup (IF faults < MaxFaults THEN kinds ELSE {})

Faulted(fault, res) == IF fault # "none" /\ res.calls > 0 THEN faults + 1 ELSE faults

\* the query strings GET /api/notes is called with
ListOptions ==
    { NoOpts,
      [limit |-> Some(i64_pow2(32, 0)), page |-> Some(i64_pow2(32, 1))] }

\* the query strings of the pagination specification SpecList
PageOptions ==
    ListOptions \cup
    { [limit |-> Some(i64_pow2(31, 0)), page |-> Some(i64_pow2(32, 1))] } \cup
    { [limit |-> Some(i64(l)), page |-> Some(i64(p))] : l \in {1, 3, 10}, p \in 1..3 }

\* (page - 1) * limit of every query string, computed once
products ==
    [o \in PageOptions |->
        skip_product(unwrap_or(o.limit, i64(DefaultLimit)),
                     unwrap_or(o.page, i64(DefaultPage)))]

Init ==
    /\ notes = <<>>
    /\ titleIndex = FALSE
    /\ nextOid = 1
    /\ now = 0
    /\ faults = 0
    /\ req = [s \in Slots |-> Idle]
    /\ last = Idle

\* GET /api/notes?page=&limit= : notes_list_handler and DB::fetch_notes
List(s, options) ==
    /\ Receivable(s)
    /\ \E opts \in options :
          LET limit == unwrap_or(opts.limit, i64(DefaultLimit))
              page == unwrap_or(opts.page, i64(DefaultPage))
              product == products[opts]
          IN  \E fault \in FaultChoices({"call", "cursor"}), overflow_checks \in BOOLEAN :
                 LET res == fetch_from(limit, product, fault, overflow_checks)
                 IN  /\ last' = Finished(now + 1, "list", <<>>, NoBody, opts, None, 0,
                                         res, notes_list_handler(res))
                     /\ notes' = res.store
                     /\ faults' = Faulted(fault, res)
    /\ now' = now + 1
    /\ UNCHANGED <<titleIndex, nextOid, req>>

ListNotes(s) == List(s, ListOptions)

\* GET /api/notes/{id} : get_note_handler and DB::get_note
GetNote(s) ==
    /\ Receivable(s)
    /\ \E id \in IdStrings, fault \in FaultChoices({"call"}) :
          LET res == get_note(id, fault)
          IN  /\ last' = Finished(now + 1, "get", id, NoBody, NoOpts, None, 0, res,
                                  note_handler(id, res))
              /\ notes' = res.store
              /\ faults' = Faulted(fault, res)
    /\ now' = now + 1
    /\ UNCHANGED <<titleIndex, nextOid, req>>

\* PATCH /api/notes/{id} : edit_note_handler and DB::edit_note
EditNote(s) ==
    /\ Receivable(s)
    /\ \E id \in IdStrings, body \in UpdateBodies, fault \in FaultChoices({"call"}) :
          LET res == edit_note(id, body, fault)
          IN  /\ last' = Finished(now + 1, "edit", id, body, NoOpts, None, 0, res,
                                  note_handler(id, res))
              /\ notes' = res.store
              /\ faults' = Faulted(fault, res)
    /\ now' = now + 1
    /\ UNCHANGED <<titleIndex, nextOid, req>>

\* DELETE /api/notes/{id} : delete_note_handler and DB::delete_note
DeleteNote(s) ==
    /\ Receivable(s)
    /\ \E id \in IdStrings, fault \in FaultChoices({"call"}) :
          LET res == delete_note(id, fault)
          IN  /\ last' = Finished(now + 1, "delete", id, NoBody, NoOpts, None, 0, res,
                                  delete_note_handler(id, res))
              /\ notes' = res.store
              /\ faults' = Faulted(fault, res)
    /\ now' = now + 1
    /\ UNCHANGED <<titleIndex, nextOid, req>>

\* POST or PATCH with a body warp::body::json() cannot deserialize: the
\* filter rejects and no handler runs
BadBody(s) ==
    /\ Receivable(s)
    /\ \E op \in {"create", "edit"} :
          last' = Finished(now + 1, op, <<>>, NoBody, NoOpts, None, 0, Ok(None, 0, notes),
                           WebRejection(Rejection("BodyDeserializeError", NoError)))
    /\ now' = now + 1
    /\ UNCHANGED <<notes, titleIndex, nextOid, faults, req>>

\* POST /api/notes, create_note up to the return of create_index(..).expect(..)
CreateIndex(s) ==
    /\ Receivable(s)
    /\ \E body \in CreateBodies, fault \in FaultChoices({"call"}) :
          IF fault # "none"
          THEN /\ last' = Finished(now + 1, "create", <<>>, body, NoOpts, None, 0,
                                   Panic(1), create_note_handler(Panic(1)))
               /\ faults' = faults + 1
               /\ UNCHANGED <<titleIndex, req>>
          ELSE /\ req' = [req EXCEPT ![s] =
                             Request(now + 1, "insert", "create", <<>>, body, NoOpts,
                                     None, 1, NoError, Rejection("none", NoError),
                                     NoReply)]
               /\ titleIndex' = TRUE
               /\ UNCHANGED <<faults, last>>
    /\ now' = now + 1
    /\ UNCHANGED <<notes, nextOid>>

\* create_note from Utc::now() to the return of insert_one
InsertOne(s) ==
    /\ req[s].pc = "insert"
    /\ \E fault \in FaultChoices({"call"}) :
          LET r == req[s]
              res == insert_one(doc_with_dates(r.body, now), fault)
          IN  /\ IF res.tag = "Err"
                 THEN /\ last' = Finished(r.seq, "create", <<>>, r.body, NoOpts, None,
                                          r.calls, res, create_note_handler(res))
                      /\ req' = [req EXCEPT ![s] = Idle]
                      /\ UNCHANGED nextOid
                 ELSE /\ req' = [req EXCEPT ![s] =
                                    [r EXCEPT !.pc = "find", !.new_id = res.val,
                                              !.calls = r.calls + res.calls]]
                      /\ nextOid' = nextOid + 1
                      /\ UNCHANGED last
              /\ notes' = res.store
              /\ faults' = Faulted(fault, res)
    /\ UNCHANGED <<titleIndex, now>>

\* create_note from its find_one to the handler's reply
FindOne(s) ==
    /\ req[s].pc = "find"
    /\ \E fault \in FaultChoices({"call"}) :
          LET r == req[s]
              res == read_back(unwrap(r.new_id), fault)
          IN  /\ last' = Finished(r.seq, "create", <<>>, r.body, NoOpts, r.new_id,
                                  r.calls, res, create_note_handler(res))
              /\ req' = [req EXCEPT ![s] = Idle]
              /\ faults' = Faulted(fault, res)
    /\ UNCHANGED <<notes, titleIndex, nextOid, now>>

Next ==
    \E s \in Slots :
        \/ ListNotes(s)
        \/ GetNote(s)
        \/ EditNote(s)
        \/ DeleteNote(s)
        \/ BadBody(s)
        \/ CreateIndex(s)
        \/ InsertOne(s)
        \/ FindOne(s)

Spec == Init /\ [][Next]_vars

----------------------------------------------------------------------------
(* Pagination on its own: fetch_notes reads the collection and changes     *)
(* nothing, so it is checked over collections of every size up to MaxNotes *)
(* as earlier creates leave them, and over more query strings.             *)

\* the i-th note of a collection filled by creates with distinct titles
stored_note(i) ==
    [_id |-> new_oid(i), title |-> "t" \o ToString(i), content |-> "c1",
     category |-> "", published |-> FALSE, createdAt |-> 0, updatedAt |-> 0]

InitList ==
    /\ \E n \in 0..MaxNotes :
          /\ notes = [i \in 1..n |-> stored_note(i)]
          /\ titleIndex = (n > 0)
          /\ nextOid = n + 1
    /\ now = 0
    /\ faults = 0
    /\ req = [s \in Slots |-> Idle]
    /\ last = Idle

ListPage(s) == List(s, PageOptions)

NextList == \E s \in Slots : ListPage(s)

SpecList == InitList /\ [][NextList]_vars

----------------------------------------------------------------------------
(* handle_rejection on its own: every rejection warp can hand to it.       *)

Rejections ==
    { Rejection(k, NoError) : k \in RejectionKinds \ {"Error"} } \cup
    { Rejection("Error", Error(v, m)) :
        v \in ErrorVariants, m \in IdStrings \cup {DuplicateKeyMessage, TransportMessage} }

InitRej ==
    /\ notes = <<>>
    /\ titleIndex = FALSE
    /\ nextOid = 1
    /\ now = 1
    /\ faults = 0
    /\ req = [s \in Slots |-> Idle]
    /\ \E r \in Rejections, op \in {"list", "create", "get", "edit", "delete"} :
          last = Request(1, "rejected", op, <<>>, NoBody, NoOpts, None, 0, r.error, r,
                         NoReply)

\* routes.recover(error::handle_rejection) on a rejected request
Recover ==
    /\ last.pc = "rejected"
    /\ last' = [last EXCEPT !.pc = "done", !.reply = handle_rejection(last.rejection)]
    /\ UNCHANGED <<notes, titleIndex, nextOid, now, faults, req>>

NextRej == Recover

SpecRej == InitRej /\ [][NextRej]_vars

TypeOK ==
    /\ titleIndex \in BOOLEAN
    /\ nextOid \in 1..(MaxRequests + 1)
    /\ now \in 0..MaxRequests
    /\ faults \in 0..MaxFaults
    /\ \A s \in Slots : req[s].pc \in {"idle", "insert", "find"}
    /\ last.pc \in {"idle", "rejected", "done", "panicked"}

----------------------------------------------------------------------------
(* Properties. *)

\* a request of one of the kinds ops finishes in this step
Finishes(ops) == last'.seq # last.seq /\ last'.op \in ops

\* connection s's create performs its insert_one in this step
Inserts(s) == req[s].pc = "insert" /\ req'[s].pc # "insert"

\* C1: in every reachable state, whatever creates, updates and deletes ran
\* and however they interleaved, no two stored notes have the same title.
C1_unique_titles ==
    \A i, j \in 1..Len(notes) : i # j => notes[i].title # notes[j].title

\* Two creates with the same title were in flight together; one has inserted
\* and is still being served, the other was refused as a duplicate.
C1_witness ==
    \E s \in Slots :
        /\ req[s].pc = "find"
        /\ last.op = "create"
        /\ last.seq > req[s].seq
        /\ last.body.title = req[s].body.title
        /\ last.error.variant = "MongoDuplicateError"

\* C2: when create's insert finds its title on a stored note, nothing is
\* inserted and every stored note stays as it is; unless the store call
\* failed in transport, the create fails with the duplicate-key error and the
\* response is 409.
C2_duplicate_create ==
    [][\A s \in Slots :
          (Inserts(s) /\ title_taken(unwrap(req[s].body.title), 0)) =>
              /\ notes' = notes
              /\ last'.seq = req[s].seq
              /\ faults' = faults =>
                    /\ last'.error.variant = "MongoDuplicateError"
                    /\ last'.rejection = custom(last'.error)
                    /\ last'.reply.code = CONFLICT
                    /\ last'.reply.kind = "generic"]_vars

\* A create answered 409 while the note holding its title is stored.
C2_witness ==
    /\ last.op = "create"
    /\ last.reply.code = CONFLICT
    /\ \E i \in 1..Len(notes) : notes[i].title = unwrap(last.body.title)

\* the position in the collection of the note a path parameter names
position(id) == CHOOSE i \in matching(from_str(id).oid) : TRUE

\* a request for an existing note is answered 200 in this step
Succeeds(op) == Finishes({op}) /\ last'.reply.code = OK

\* C3: every successful update of an existing note, whichever fields its
\* body holds, leaves the note's updatedAt strictly greater than it was and
\* its createdAt as it was.
C3_update_refreshes_updatedAt ==
    [][Succeeds("edit") =>
          /\ notes'[position(last'.id)].updatedAt > notes[position(last'.id)].updatedAt
          /\ notes'[position(last'.id)].createdAt = notes[position(last'.id)].createdAt]_vars

\* C4: a successful update overwrites exactly the fields of title, content,
\* category and published its body holds; the note's other fields among
\* these, its id and every other note stay as they were, and the note
\* returned is the stored note after the merge.
C4_update_merges ==
    [][Succeeds("edit") =>
          LET i == position(last'.id)
              body == last'.body
          IN  /\ Len(notes') = Len(notes)
              /\ \A j \in 1..Len(notes) : j # i => notes'[j] = notes[j]
              /\ notes'[i]._id = notes[i]._id
              /\ \A f \in Fields :
                    notes'[i][f] = IF is_some(body[f]) THEN unwrap(body[f])
                                   ELSE notes[i][f]
              /\ last'.reply.kind = "note"
              /\ last'.reply.notes =
                    << [id |-> to_hex(notes'[i]._id), title |-> notes'[i].title,
                        content |-> notes'[i].content, category |-> notes'[i].category,
                        published |-> notes'[i].published,
                        createdAt |-> notes'[i].createdAt,
                        updatedAt |-> notes'[i].updatedAt] >>]_vars

\* An update that set only the category of one of two stored notes.
C4_witness ==
    /\ last.op = "edit"
    /\ last.reply.code = OK
    /\ last.body = [NoBody EXCEPT !.category = Some("b")]
    /\ Len(notes) = 2
    /\ \E i \in 1..2 : notes[i].category = "b" /\ to_hex(notes[i]._id) = last.id

\* min(limit, max(0, n - (page - 1) * limit)), the product taken exactly
page_size(opts, n) ==
    clamp(unwrap_or(opts.limit, i64(DefaultLimit)), n - clamp(products[opts], n))

\* C5: for every limit >= 1 and page >= 1 over a collection of n notes, list
\* skips (page - 1) * limit notes and answers 200 with
\* min(limit, max(0, n - (page - 1) * limit)) notes and results equal to that
\* count (a page beyond the data is an empty list, not an error), and the
\* collection is left as it was.  A transport failure of the store call is
\* the one exception to the answer.
C5_list_pages ==
    [][Finishes({"list"}) =>
          /\ notes' = notes
          /\ faults' = faults =>
                /\ last'.pc = "done"
                /\ last'.reply.code = OK
                /\ last'.reply.results = page_size(last'.opts, Len(notes))
                /\ Len(last'.reply.notes) = last'.reply.results
                /\ \A k \in 1..Len(last'.reply.notes) :
                      last'.reply.notes[k].id =
                          to_hex(notes[clamp(products[last'.opts], Len(notes)) + k]._id)]_vars

\* C5 where (page - 1) * limit stays within i64.
fetch_notes_in_range ==
    [][(Finishes({"list"}) /\ ~overflows(products[last'.opts])) =>
          /\ notes' = notes
          /\ faults' = faults =>
                /\ last'.pc = "done"
                /\ last'.reply.code = OK
                /\ last'.reply.results = page_size(last'.opts, Len(notes))
                /\ Len(last'.reply.notes) = last'.reply.results
                /\ \A k \in 1..Len(last'.reply.notes) :
                      last'.reply.notes[k].id =
                          to_hex(notes[clamp(products[last'.opts], Len(notes)) + k]._id)]_vars

\* Fifteen notes, limit 10: pages 1, 2 and 3 hold 10, 5 and 0 notes.
fetch_notes_boundary ==
    (/\ Len(notes) = 15
     /\ last.op = "list"
     /\ last.opts.limit = Some(i64(10))
     /\ last.pc = "done"
     /\ last.reply.code = OK) =>
        last.reply.results =
            CASE last.opts.page = Some(i64(1)) -> 10
              [] last.opts.page = Some(i64(2)) -> 5
              [] last.opts.page = Some(i64(3)) -> 0
              [] OTHER -> last.reply.results

\* a get, update or delete whose body, if any, was well-formed finishes
FinishesById ==
    /\ Finishes({"get", "edit", "delete"})
    /\ last'.rejection.kind # "BodyDeserializeError"

\* C6: for get, update and delete, an id that is no ObjectId yields
\* InvalidIDError and a 400 whose message is the id, with no store call
\* issued; a well-formed id that matches no note yields the 404 naming the
\* id and no error, unless the store call failed in transport; either way
\* the collection is left as it was.
C6_absent_or_invalid_id ==
    [][FinishesById =>
          LET r == last'
          IN  /\ ~from_str(r.id).ok =>
                    /\ r.error = InvalidIDError(r.id)
                    /\ r.reply.code = BAD_REQUEST
                    /\ r.reply.message = r.id
                    /\ r.calls = 0
                    /\ notes' = notes
              /\ (from_str(r.id).ok /\ matching(from_str(r.id).oid) = {}) =>
                    /\ notes' = notes
                    /\ faults' = faults =>
                          /\ r.error = NoError
                          /\ r.rejection.kind = "none"
                          /\ r.reply.code = NOT_FOUND
                          /\ r.reply.message = not_found_message(r.id)]_vars

\* A delete of a well-formed id no stored note has, answered 404 while a
\* note is stored.
C6_witness ==
    /\ last.op = "delete"
    /\ from_str(last.id).ok
    /\ last.reply.code = NOT_FOUND
    /\ last.reply.message = not_found_message(last.id)
    /\ notes # <<>>

\* the ObjectId a finished request's path parameter names
oid_of(r) == from_str(r.id).oid

status_of(variant) ==
    CASE variant = "MongoDuplicateError" -> CONFLICT
      [] variant = "InvalidIDError" -> BAD_REQUEST
      [] variant \in {"MongoQueryError", "MongoError", "MongoSerializeBsonError",
                      "MongoDataError"} -> INTERNAL_SERVER_ERROR

\* C8: the status of a recovered rejection follows from its error kind alone:
\* the query, connection, serialization and data-access errors give 500, the
\* duplicate-key error 409, the invalid-id error 400, and a body that does
\* not deserialize 400 with the message "Invalid Body".
C8_status_by_kind ==
    last.pc = "done" =>
        /\ last.rejection.kind = "Error" =>
              last.reply.code = status_of(last.rejection.error.variant)
        /\ last.rejection.kind = "BodyDeserializeError" =>
              /\ last.reply.code = BAD_REQUEST
              /\ last.reply.message = <<"Invalid Body">>

\* C9: every request ends in a response with a status code and a JSON
\* envelope, whatever the store answers at any of its calls; none ends in a
\* panic.
C9_always_a_response ==
    /\ last.pc # "panicked"
    /\ last.pc = "done" => last.reply.code # 0

\* C10: a create whose insert succeeded answers 201 with the note it
\* inserted: its generated id, the body's title and content, and published
\* and category as given or else false and "", whatever other requests ran
\* between the insert and the read-back (the read-back's own transport
\* failure aside).
C10_create_returns_its_note ==
    (last.op = "create" /\ is_some(last.new_id) /\ last.error = NoError) =>
        /\ last.pc = "done"
        /\ last.reply.code = CREATED
        /\ last.reply.kind = "note"
        /\ Len(last.reply.notes) = 1
        /\ last.reply.notes[1].id = to_hex(unwrap(last.new_id))
        /\ last.reply.notes[1].title = unwrap(last.body.title)
        /\ last.reply.notes[1].content = unwrap(last.body.content)
        /\ last.reply.notes[1].category = unwrap_or(last.body.category, "")
        /\ last.reply.notes[1].published = unwrap_or(last.body.published, FALSE)

====
